---- MODULE Spec2Model ----
(***************************************************************************)
(* Vote-Efficency-ML: the statistics store (database/db_manager.py) and    *)
(* the vote sniper's polling loop (sniper.py).                             *)
(*                                                                         *)
(* Numbers.  SQLite REAL values produced by AVG() are modelled as exact    *)
(* rationals in lowest terms, [num, den] with den > 0; a SQL NULL real is  *)
(* [num |-> 0, den |-> 0].  Efficiencies and delays passed in by callers   *)
(* are integers.  Time is counted in whole minutes.                        *)
(***************************************************************************)
EXTENDS Integers, Sequences, FiniteSets, TLC

VARIABLES
    authors,                \* table authors: row i is <<author_name, platform>>, author_id = i
    author_statistics,      \* table author_statistics, in stat_id order
    aggregated_statistics,  \* table aggregated_statistics: author_id -> row
    voting_delays,          \* table voting_delays, in delay_id order
    ret,                    \* the last DatabaseManager call and what it gave back
    \* VoteSniper
    published_posts,        \* self.published_posts: the URLs already handed on
    pc,                     \* where process_votes stands
    steem_users,            \* process_votes: steem_users (author names)
    hive_users,             \* process_votes: hive_users (author names)
    on_platform,            \* the platform argument of the running get_posts / _process_platform_posts
    current_time,           \* get_posts: current_time
    todo,                   \* get_posts: usernames still to visit
    post_links,             \* get_posts: post_links
    posts,                  \* _process_platform_posts: posts still to visit
    wake_at,                \* the time at which the running time.sleep returns
    clf_model,              \* clf_model.predict: features -> 0 or 1, as loaded from the model file
    raised_in,              \* process_votes: where the exception was raised that the last
                            \* start of a platform or of an iteration ended in, if any
    \* the world outside the process
    now,                    \* the clock, in minutes
    latest_post,            \* beem.get_author_post: the latest post of each author
    voting_power,           \* beem.calculate_voting_power, by platform of the curator
    \* what has happened so far
    scan,                   \* the last pass of get_posts' loop since the platform's block
                            \* began: its outcome, the URL, and whether clf_model.predict
                            \* had answered 0 for that URL before
    predicted_skip,         \* URLs for which clf_model.predict answered 0
    scheduled,              \* URL -> number of times get_posts returned it
    executed,               \* URL -> number of like_steem_post calls for it
    decision,               \* the last pass of _process_platform_posts' loop since the
                            \* platform's block began: the URL, the voting power it read,
                            \* its outcome, the Telegram messages sent
    ended                   \* URL -> how the pass of _process_platform_posts for it ended
                            \* when it ended without a vote: "skipped" or "error"

dbvars == <<authors, author_statistics, aggregated_statistics, voting_delays>>

snipervars == <<published_posts, pc, steem_users, hive_users, on_platform,
                current_time, todo, post_links, posts, wake_at, clf_model, raised_in>>

worldvars == <<now, latest_post, voting_power>>

logvars == <<scan, predicted_skip, scheduled, executed, decision, ended>>

(***************************************************************************)
(* Bounds of the model.                                                    *)
(***************************************************************************)
MaxWrites == 4      \* rows written by Spec (author_statistics + voting_delays)
MaxObs == 6         \* delay observations written by DelaySpec
MaxCallWrites == 2  \* rows written by CallsSpec

(***************************************************************************)
(* Program constants.                                                      *)
(***************************************************************************)
DEFAULT_OPTIMAL_DELAY == 1440     \* optimal_delay INTEGER DEFAULT 1440
DEFAULT_BEST_EFFICIENCY == 0      \* best_efficiency REAL DEFAULT 0
RECENT_LIMIT == 5                 \* LIMIT 5 of get_optimal_delay's subquery
GOOD_TENTHS == 8                  \* the factor 0.8 of get_optimal_delay, in tenths
MAX_AGE_MINUTES == 5              \* get_posts(..., max_age_minutes=5)
VP_THRESHOLD == 89                \* if voting_power > 89

(***************************************************************************)
(* Inputs the callers draw from.                                           *)
(***************************************************************************)
Platforms == {"STEEM", "HIVE"}
StoreAuthors == {<<"alice", "STEEM">>, <<"alice", "HIVE">>}
\* (efficiency, reputation, payout) of one training run
SnapshotInputs == {<<10, 50, 1>>, <<20, 70, 4>>}
DelayInputs == {0, 60}
EfficiencyInputs == {-1, 0, 4, 5}
ObsEfficiencyInputs == {0, 5}
UrlOf(author_name, platform) == <<"url", author_name, platform>>
SniperAuthors == {<<"alice", "STEEM">>, <<"bob", "STEEM">>, <<"alice", "HIVE">>}
Urls == {UrlOf(a[1], a[2]) : a \in SniperAuthors}
ClockReadings == {0, 5, 6}
VotingPowers == {89, 90}

(***************************************************************************)
(* Exact rationals for SQLite REAL.                                        *)
(***************************************************************************)
NullReal == [num |-> 0, den |-> 0]

Abs(n) == IF n < 0 THEN -n ELSE n

RECURSIVE GCD(_, _)
GCD(a, b) == IF b = 0 THEN a ELSE GCD(b, a % b)

Real(n, d) ==
    LET g == GCD(Abs(n), d)
    IN  [num |-> n \div g, den |-> d \div g]

IsNull(r) == r.den = 0

RECURSIVE SeqSum(_)
SeqSum(s) == IF s = <<>> THEN 0 ELSE Head(s) + SeqSum(Tail(s))

\* SQL AVG over a column: NULL over no rows, else sum / count.
AVG(column) ==
    IF column = <<>> THEN NullReal ELSE Real(SeqSum(column), Len(column))

(***************************************************************************)
(* authors: INSERT OR IGNORE and the author_id lookup.                     *)
(***************************************************************************)
\* SELECT author_id FROM authors WHERE author_name = ? AND platform = ?
\* (0 stands for "no row").
AuthorId(auths, author_name, platform) ==
    IF \E i \in 1..Len(auths) : auths[i] = <<author_name, platform>>
    THEN CHOOSE i \in 1..Len(auths) : auths[i] = <<author_name, platform>>
    ELSE 0

\* INSERT OR IGNORE INTO authors (author_name, platform): UNIQUE(author_name, platform)
InsertOrIgnoreAuthor(auths, author_name, platform) ==
    IF AuthorId(auths, author_name, platform) # 0
    THEN auths
    ELSE Append(auths, <<author_name, platform>>)

(***************************************************************************)
(* update_author_stats                                                     *)
(***************************************************************************)
\* A mutant of SnapshotsOf: the WHERE author_id = ? is lost.
SnapshotsOfAnyAuthor(stats, author_id) == stats

\* FROM author_statistics WHERE author_id = ?
SnapshotsOf(stats, author_id) ==
    SelectSeq(stats, LAMBDA r : r.author_id = author_id)

\* SELECT author_id, AVG(avg_efficiency), AVG(reputation), AVG(avg_payout), COUNT(*)
ComputedAggregate(stats, author_id) ==
    LET rows == SnapshotsOf(stats, author_id)
    IN  [avg_efficiency_all_time |-> AVG([i \in 1..Len(rows) |-> rows[i].avg_efficiency]),
         reputation_all_time |-> AVG([i \in 1..Len(rows) |-> rows[i].reputation]),
         avg_payout_all_time |-> AVG([i \in 1..Len(rows) |-> rows[i].avg_payout]),
         total_trainings |-> Len(rows)]

\* A mutant of UpsertAggregate: INSERT OR REPLACE, which resets the delay fields.
ReplaceAggregate(agg, stats, author_id) ==
    LET c == ComputedAggregate(stats, author_id)
        row == [avg_efficiency_all_time |-> c.avg_efficiency_all_time,
                reputation_all_time |-> c.reputation_all_time,
                avg_payout_all_time |-> c.avg_payout_all_time,
                total_trainings |-> c.total_trainings,
                optimal_delay |-> DEFAULT_OPTIMAL_DELAY,
                best_efficiency |-> DEFAULT_BEST_EFFICIENCY]
    IN  [id \in DOMAIN agg \cup {author_id} |-> IF id = author_id THEN row ELSE agg[id]]

\* INSERT INTO aggregated_statistics (...) SELECT ... ON CONFLICT(author_id) DO UPDATE SET
\* the three means and the count; a new row takes the column defaults for
\* optimal_delay and best_efficiency, an existing row keeps them.
UpsertAggregate(agg, stats, author_id) ==
    LET c == ComputedAggregate(stats, author_id)
        fresh == [avg_efficiency_all_time |-> c.avg_efficiency_all_time,
                  reputation_all_time |-> c.reputation_all_time,
                  avg_payout_all_time |-> c.avg_payout_all_time,
                  total_trainings |-> c.total_trainings,
                  optimal_delay |-> DEFAULT_OPTIMAL_DELAY,
                  best_efficiency |-> DEFAULT_BEST_EFFICIENCY]
    IN  IF author_id \in DOMAIN agg
        THEN [agg EXCEPT ![author_id] =
                 [@ EXCEPT !.avg_efficiency_all_time = c.avg_efficiency_all_time,
                           !.reputation_all_time = c.reputation_all_time,
                           !.avg_payout_all_time = c.avg_payout_all_time,
                           !.total_trainings = c.total_trainings]]
        ELSE [id \in DOMAIN agg \cup {author_id} |->
                 IF id = author_id THEN fresh ELSE agg[id]]

NoValue == [found |-> FALSE]

\* The call returned value (None is NoValue).
Returned(op, author_name, platform, value) ==
    [op |-> op, author |-> <<author_name, platform>>, raised |-> FALSE, error |-> "",
     value |-> value]

\* The call raised error to its caller.
RaisedError(op, author_name, platform, error) ==
    [op |-> op, author |-> <<author_name, platform>>, raised |-> TRUE, error |-> error,
     value |-> NoValue]

\* except sqlite3.Error as e: logger.error(...); raise
Raised(op, author_name, platform) == RaisedError(op, author_name, platform, "sqlite3.Error")

Db == [authors |-> authors, author_statistics |-> author_statistics,
       aggregated_statistics |-> aggregated_statistics, voting_delays |-> voting_delays]

SetDb(db) ==
    /\ authors' = db.authors
    /\ author_statistics' = db.author_statistics
    /\ aggregated_statistics' = db.aggregated_statistics
    /\ voting_delays' = db.voting_delays

\* The tables init_database creates, empty.
EmptyDb == [authors |-> <<>>, author_statistics |-> <<>>,
            aggregated_statistics |-> <<>>, voting_delays |-> <<>>]

\* A mutant of Rollback: the statements executed before the error stay written.
KeepPartialWrites(committed, working) == working

\* `with sqlite3.connect(self.db_path) as conn:` left by an exception: the connection
\* rolls back, and the database is as it was committed before the call.
Rollback(committed, working) == committed

\* The three write statements of update_author_stats.
StatsStatements == 3

\* update_author_stats: the transaction's view of the database after its first n write
\* statements (INSERT OR IGNORE INTO authors, INSERT INTO author_statistics, INSERT INTO
\* aggregated_statistics ... ON CONFLICT DO UPDATE).  training_date and model_version
\* are stored and never read; they are left out of the rows.
update_author_stats_through(db, author_name, efficiency, reputation, payout, platform, n) ==
    LET auths == InsertOrIgnoreAuthor(db.authors, author_name, platform)
        author_id == AuthorId(auths, author_name, platform)
        stats == Append(db.author_statistics,
                        [author_id |-> author_id, avg_efficiency |-> efficiency,
                         reputation |-> reputation, avg_payout |-> payout])
    IN  [authors |-> IF n >= 1 THEN auths ELSE db.authors,
         author_statistics |-> IF n >= 2 THEN stats ELSE db.author_statistics,
         aggregated_statistics |->
             IF n >= 3 THEN UpsertAggregate(db.aggregated_statistics, stats, author_id)
             ELSE db.aggregated_statistics,
         voting_delays |-> db.voting_delays]

\* update_author_stats(author_name, efficiency, reputation, payout, model_version, platform):
\* the database after the committed transaction.
update_author_stats(db, author_name, efficiency, reputation, payout, platform) ==
    update_author_stats_through(db, author_name, efficiency, reputation, payout, platform,
                                StatsStatements)

\* A call of update_author_stats.  A sqlite3.Error can come from any statement or from
\* conn.commit(): the statements before it have been executed in the transaction, the
\* `with` block rolls it back and the error is re-raised to the caller.
UpdateAuthorStats(author_name, efficiency, reputation, payout, platform, fails) ==
    IF fails
    THEN /\ ret' = Raised("update_author_stats", author_name, platform)
         /\ \E done \in 0..StatsStatements :
               SetDb(Rollback(Db, update_author_stats_through(Db, author_name, efficiency,
                                      reputation, payout, platform, done)))
    ELSE /\ SetDb(update_author_stats(Db, author_name, efficiency, reputation, payout, platform))
         /\ ret' = Returned("update_author_stats", author_name, platform, NoValue)

(***************************************************************************)
(* update_voting_delay                                                     *)
(***************************************************************************)
\* A mutant of BeatsBest: ties replace the stored delay too.
BeatsOrTiesBest(row, efficiency) == row.best_efficiency <= efficiency

\* WHERE ... AND (best_efficiency < ? OR best_efficiency IS NULL).  No statement of
\* the program stores NULL in best_efficiency (the column default is 0), so the
\* IS NULL branch is never taken.
BeatsBest(row, efficiency) == row.best_efficiency < efficiency

\* A mutant of UpdateBest: the WHERE clause on best_efficiency is lost.
UpdateBestAlways(agg, author_id, vote_delay, efficiency) ==
    [id \in DOMAIN agg |->
        IF id = author_id
        THEN [agg[id] EXCEPT !.optimal_delay = vote_delay, !.best_efficiency = efficiency]
        ELSE agg[id]]

\* A mutant of UpdateBest: the WHERE author_id = ? is lost.
UpdateBestAnyAuthor(agg, author_id, vote_delay, efficiency) ==
    [id \in DOMAIN agg |->
        IF BeatsBest(agg[id], efficiency)
        THEN [agg[id] EXCEPT !.optimal_delay = vote_delay, !.best_efficiency = efficiency]
        ELSE agg[id]]

\* UPDATE aggregated_statistics SET optimal_delay = ?, best_efficiency = ?
\* WHERE author_id = ? AND (best_efficiency < ? OR best_efficiency IS NULL)
UpdateBest(agg, author_id, vote_delay, efficiency) ==
    [id \in DOMAIN agg |->
        IF id = author_id /\ BeatsBest(agg[id], efficiency)
        THEN [agg[id] EXCEPT !.optimal_delay = vote_delay, !.best_efficiency = efficiency]
        ELSE agg[id]]

\* The two write statements of update_voting_delay.
DelayStatements == 2

\* update_voting_delay: the transaction's view of the database after its first n write
\* statements (INSERT INTO voting_delays, UPDATE aggregated_statistics).  voted_at is
\* CURRENT_TIMESTAMP: rows are stamped in the order they are written.  For an unknown
\* author the body of `if result:` is skipped and nothing is written.
update_voting_delay_through(db, author_name, platform, vote_delay, efficiency, post_url, n) ==
    LET author_id == AuthorId(db.authors, author_name, platform)
    IN  IF author_id # 0
        THEN [db EXCEPT
                !.voting_delays =
                    IF n >= 1
                    THEN Append(@, [author_id |-> author_id, vote_delay |-> vote_delay,
                                    efficiency |-> efficiency, post_url |-> post_url,
                                    voted_at |-> Len(@) + 1])
                    ELSE @,
                !.aggregated_statistics =
                    IF n >= 2 THEN UpdateBest(@, author_id, vote_delay, efficiency) ELSE @]
        ELSE db

\* update_voting_delay(author_name, platform, vote_delay, efficiency, post_url): the
\* database after the committed transaction.
update_voting_delay(db, author_name, platform, vote_delay, efficiency, post_url) ==
    update_voting_delay_through(db, author_name, platform, vote_delay, efficiency, post_url,
                                DelayStatements)

\* A mutant of VotingDelayOutcome: an unknown author is reported as an error.
VotingDelayOutcomeNotFound(db, author_name, platform) ==
    IF AuthorId(db.authors, author_name, platform) = 0
    THEN RaisedError("update_voting_delay", author_name, platform, "NotFoundError")
    ELSE Returned("update_voting_delay", author_name, platform, NoValue)

\* What update_voting_delay gives its caller when no sqlite3.Error occurs: it has no
\* return statement and raises nothing, whether or not the author was found.
VotingDelayOutcome(db, author_name, platform) ==
    Returned("update_voting_delay", author_name, platform, NoValue)

\* A call of update_voting_delay; a sqlite3.Error, from any statement or from
\* conn.commit(), rolls the transaction back and is re-raised.
UpdateVotingDelay(author_name, platform, vote_delay, efficiency, post_url, fails) ==
    IF fails
    THEN /\ ret' = Raised("update_voting_delay", author_name, platform)
         /\ \E done \in 0..DelayStatements :
               SetDb(Rollback(Db, update_voting_delay_through(Db, author_name, platform,
                                      vote_delay, efficiency, post_url, done)))
    ELSE /\ SetDb(update_voting_delay(Db, author_name, platform, vote_delay, efficiency, post_url))
         /\ ret' = VotingDelayOutcome(Db, author_name, platform)

(***************************************************************************)
(* get_optimal_delay                                                       *)
(***************************************************************************)
\* A mutant of IsGoodDelay: every observation of the author qualifies.
IsAnyDelay(vd, author_id, best_efficiency) == vd.author_id = author_id

\* WHERE vd.author_id = a.author_id AND vd.efficiency >= (ag.best_efficiency * 0.8)
IsGoodDelay(vd, author_id, best_efficiency) ==
    /\ vd.author_id = author_id
    /\ 10 * vd.efficiency >= GOOD_TENTHS * best_efficiency

GoodDelays(delays, author_id, best_efficiency) ==
    SelectSeq(delays, LAMBDA vd : IsGoodDelay(vd, author_id, best_efficiency))

\* ORDER BY voted_at DESC over rows that carry voted_at (insertion sort, newest first).
RECURSIVE OrderByVotedAtDesc(_)
OrderByVotedAtDesc(rows) ==
    IF rows = <<>> THEN <<>>
    ELSE LET newest == CHOOSE i \in 1..Len(rows) :
                          \A j \in 1..Len(rows) : rows[j].voted_at <= rows[i].voted_at
             rest == [k \in 1..(Len(rows) - 1) |-> IF k < newest THEN rows[k] ELSE rows[k + 1]]
         IN  <<rows[newest]>> \o OrderByVotedAtDesc(rest)

\* LIMIT n
Limit(rows, n) == IF Len(rows) <= n THEN rows ELSE SubSeq(rows, 1, n)

\* (SELECT AVG(vd.vote_delay) FROM voting_delays vd WHERE ... ORDER BY vd.voted_at DESC
\*  LIMIT 5): AVG without GROUP BY folds every row the WHERE keeps into ONE result
\* row; ORDER BY and LIMIT then apply to that one-row result, which LIMIT 5 leaves
\* as it is.  The scalar subquery's value is the first (only) row.
RecentGoodDelaySubquery(delays, author_id, best_efficiency) ==
    LET kept == GoodDelays(delays, author_id, best_efficiency)
        result == << AVG([i \in 1..Len(kept) |-> kept[i].vote_delay]) >>
    IN  Limit(result, RECENT_LIMIT)[1]

\* A mutant of OrFallback: the fallback is lost.
NoFallback(recent, optimal_delay) == recent

\* result[3] or result[1]: Python `or` takes the right operand when the left one is
\* falsy, which None and 0.0 both are.
OrFallback(recent, optimal_delay) ==
    IF IsNull(recent) \/ recent.num = 0 THEN Real(optimal_delay, 1) ELSE recent

\* get_optimal_delay(author_name, platform): authors JOIN aggregated_statistics.
get_optimal_delay(db, author_name, platform) ==
    LET author_id == AuthorId(db.authors, author_name, platform)
        agg == db.aggregated_statistics
    IN  IF author_id = 0 \/ author_id \notin DOMAIN agg
        THEN NoValue
        ELSE LET recent == RecentGoodDelaySubquery(db.voting_delays, author_id,
                                                   agg[author_id].best_efficiency)
             IN  [found |-> TRUE,
                  author_name |-> author_name,
                  optimal_delay |-> agg[author_id].optimal_delay,
                  best_efficiency |-> agg[author_id].best_efficiency,
                  recent_good_delay |-> OrFallback(recent, agg[author_id].optimal_delay)]

\* A call of get_optimal_delay; a sqlite3.Error is logged and None is returned.
GetOptimalDelay(author_name, platform, fails) ==
    /\ ret' = Returned("get_optimal_delay", author_name, platform,
                       IF fails THEN NoValue ELSE get_optimal_delay(Db, author_name, platform))
    /\ UNCHANGED dbvars

(***************************************************************************)
(* get_author_stats and get_all_authors                                    *)
(***************************************************************************)
\* get_author_stats(author_name, platform): authors JOIN aggregated_statistics.
get_author_stats(db, author_name, platform) ==
    LET author_id == AuthorId(db.authors, author_name, platform)
        agg == db.aggregated_statistics
    IN  IF author_id = 0 \/ author_id \notin DOMAIN agg
        THEN NoValue
        ELSE [found |-> TRUE,
              author_name |-> author_name,
              platform |-> platform,
              avg_efficiency |-> agg[author_id].avg_efficiency_all_time,
              reputation |-> agg[author_id].reputation_all_time,
              avg_payout |-> agg[author_id].avg_payout_all_time,
              total_trainings |-> agg[author_id].total_trainings]

\* A call of get_author_stats; a sqlite3.Error is logged and re-raised.
GetAuthorStats(author_name, platform, fails) ==
    /\ ret' = IF fails THEN Raised("get_author_stats", author_name, platform)
               ELSE Returned("get_author_stats", author_name, platform,
                             get_author_stats(Db, author_name, platform))
    /\ UNCHANGED dbvars

\* ORDER BY ag.avg_efficiency_all_time DESC over a set of author_ids.  SQLite leaves
\* the order of equal keys open; rows of equal mean come out in author_id order.
RECURSIVE OrderByEfficiencyDesc(_, _)
OrderByEfficiencyDesc(agg, ids) ==
    IF ids = {} THEN <<>>
    ELSE LET Less(x, y) == x.num * y.den < y.num * x.den
             first == CHOOSE i \in ids :
                         \A j \in ids :
                            /\ ~Less(agg[i].avg_efficiency_all_time, agg[j].avg_efficiency_all_time)
                            /\ ( agg[j].avg_efficiency_all_time = agg[i].avg_efficiency_all_time
                                 => i <= j )
         IN  <<first>> \o OrderByEfficiencyDesc(agg, ids \ {first})

\* get_all_authors(platform): authors LEFT JOIN aggregated_statistics WHERE a.platform = ?
\* AND ag.last_updated IS NOT NULL (every aggregated row has last_updated set, so this
\* keeps the authors that have a row); the author_name column of the result.
get_all_authors(db, platform) ==
    LET ids == {i \in 1..Len(db.authors) :
                   /\ db.authors[i][2] = platform
                   /\ i \in DOMAIN db.aggregated_statistics}
        ordered == OrderByEfficiencyDesc(db.aggregated_statistics, ids)
    IN  [k \in 1..Len(ordered) |-> db.authors[ordered[k]][1]]

\* A call of get_all_authors; a sqlite3.Error is logged and [] is returned.
GetAllAuthors(platform, fails) ==
    /\ ret' = Returned("get_all_authors", "", platform,
                       IF fails THEN <<>> ELSE get_all_authors(Db, platform))
    /\ UNCHANGED dbvars

(***************************************************************************)
(* VoteSniper.get_posts                                                    *)
(***************************************************************************)
NoPost == [found |-> FALSE]

\* A mutant of IsCandidate: the published_posts test is lost.
IsFresh(age_minutes, url, published) == age_minutes <= MAX_AGE_MINUTES

\* A mutant of IsCandidate: the age test is strict.
IsYoungerThanMaxAge(age_minutes, url, published) ==
    /\ age_minutes < MAX_AGE_MINUTES
    /\ url \notin published

\* if age_minutes <= max_age_minutes and post['url'] not in self.published_posts
IsCandidate(age_minutes, url, published) ==
    /\ age_minutes <= MAX_AGE_MINUTES
    /\ url \notin published

\* A mutant of MarkProcessed: the URL is remembered whatever the classifier said.
MarkProcessedAlways(published, url, vote_decision) == published \cup {url}

\* A mutant of MarkProcessed: get_posts does not remember the URLs it returns.
MarkProcessedNever(published, url, vote_decision) == published

\* self.published_posts.add(post['url']) stands inside `if vote_decision == 1:`.
MarkProcessed(published, url, vote_decision) ==
    IF vote_decision = 1 THEN published \cup {url} ELSE published

\* clf_features: author_avg_efficiency, author_reputation, author_avg_payout
ClfFeatures(author_stats) ==
    <<author_stats.avg_efficiency, author_stats.reputation, author_stats.avg_payout>>

\* reg_model.predict([reg_features])[0]: a fixed function of the four features.
RegPredict(author_stats, vote_delay) ==
    <<"predicted_efficiency", ClfFeatures(author_stats), vote_delay>>

Bump(count, url) == [count EXCEPT ![url] = @ + 1]

NoDecision == [outcome |-> "none", url |-> <<>>, voting_power |-> 0, messages |-> {}]

NoScan == [outcome |-> "none", url |-> <<>>, again |-> FALSE]

\* get_posts is entered: `current_time = datetime.now(timezone.utc)`.
EnterGetPosts(p, usernames) ==
    /\ on_platform' = p
    /\ current_time' = now
    /\ todo' = usernames
    /\ post_links' = <<>>
    /\ pc' = "get_posts"

\* The platform's posts are done: process_votes goes on to `if hive_users:`, or to
\* time.sleep(15) and the next iteration.
AfterPlatform(p) == IF p = "STEEM" THEN "hive" ELSE "loop"

\* A mutant of ResumeAfter: the per-platform try is lost, the main loop's handler
\* catches everything.
ResumeAtNextIteration(where, p) == "loop"

\* Where process_votes goes on after an exception.  Raised in a platform's try block
\* (get_posts or _process_platform_posts outside their own per-author and per-post
\* handlers): `except Exception` logs it and the code after that platform follows.
\* Raised elsewhere in the loop body: the outer `except Exception` logs it, and after
\* time.sleep(60) the next iteration starts.
ResumeAfter(where, p) == IF where = "platform" THEN AfterPlatform(p) ELSE "loop"

\* process_votes: an iteration of `while True:` reads the two author lists and, with
\* STEEM users, enters get_posts for STEEM.  An exception may be raised before the
\* platform blocks are reached, or on the way into get_posts.
LoopStart ==
    /\ pc = "loop"
    /\ \E failure \in {"none", "main loop", "platform"} :
          /\ raised_in' = failure
          /\ IF failure = "main loop"
             THEN /\ pc' = ResumeAfter("main loop", "STEEM")
                  /\ UNCHANGED <<steem_users, hive_users, on_platform, current_time, todo,
                                 post_links>>
             ELSE /\ steem_users' = get_all_authors(Db, "STEEM")
                  /\ hive_users' = get_all_authors(Db, "HIVE")
                  /\ IF get_all_authors(Db, "STEEM") = <<>>
                     THEN /\ failure = "none"
                          /\ pc' = "hive"
                          /\ UNCHANGED <<on_platform, current_time, todo, post_links>>
                     ELSE IF failure = "platform"
                     THEN /\ on_platform' = "STEEM"
                          /\ pc' = ResumeAfter("platform", "STEEM")
                          /\ UNCHANGED <<current_time, todo, post_links>>
                     ELSE EnterGetPosts("STEEM", get_all_authors(Db, "STEEM"))
    /\ scan' = NoScan
    /\ decision' = NoDecision
    /\ UNCHANGED <<published_posts, posts, wake_at, clf_model>>
    /\ UNCHANGED <<dbvars, ret, worldvars, predicted_skip, scheduled, executed, ended>>

\* process_votes: `if hive_users:` enters get_posts for HIVE; without HIVE users the
\* iteration ends in time.sleep(15).  An exception may be raised on the way into
\* get_posts.
HiveStart ==
    /\ pc = "hive"
    /\ \E failure \in {"none", "platform"} :
          /\ raised_in' = failure
          /\ IF hive_users = <<>>
             THEN /\ failure = "none"
                  /\ pc' = "loop"
                  /\ UNCHANGED <<on_platform, current_time, todo, post_links>>
             ELSE IF failure = "platform"
             THEN /\ on_platform' = "HIVE"
                  /\ pc' = ResumeAfter("platform", "HIVE")
                  /\ UNCHANGED <<current_time, todo, post_links>>
             ELSE EnterGetPosts("HIVE", hive_users)
    /\ scan' = NoScan
    /\ decision' = NoDecision
    /\ UNCHANGED <<published_posts, steem_users, hive_users, posts, wake_at, clf_model>>
    /\ UNCHANGED <<dbvars, ret, worldvars, predicted_skip, scheduled, executed, ended>>

\* A mutant of RemainingAfter: an exception ends the loop.
NoneAfterError(usernames, raises) == IF raises THEN <<>> ELSE Tail(usernames)

\* try: ... except Exception as e: logger.error(...); continue -- inside the loop body:
\* with or without an exception the loop goes on with the usernames left.
RemainingAfter(usernames, raises) == Tail(usernames)

\* get_posts: one pass of `for username in usernames:`.  get_author_post may raise,
\* and an author without a post makes post['created'] raise; for a candidate,
\* get_author_stats (a sqlite3.Error is re-raised) or a predict call may raise, and
\* get_optimal_delay may lose its answer to a sqlite3.Error (None).  `except Exception`
\* goes on with the next author.  After the last author get_posts returns post_links
\* (its locals are cleared) and _process_platform_posts starts on them; it returns
\* at once when there are none.
ScanAuthor ==
    /\ pc = "get_posts"
    /\ todo # <<>>
    /\ \E failure \in {"none", "fetch", "evaluation", "delay"} :
          LET username == Head(todo)
              post == latest_post[<<username, on_platform>>]
              fetch_raises == failure = "fetch" \/ ~post.found
              fresh == ~fetch_raises /\ current_time - post.created <= MAX_AGE_MINUTES
              candidate == /\ ~fetch_raises
                           /\ IsCandidate(current_time - post.created, post.url, published_posts)
              raises == fetch_raises \/ (candidate /\ failure = "evaluation")
              rest == RemainingAfter(todo, raises)
              author_stats == get_author_stats(Db, username, on_platform)
              optimal_delay == IF failure = "delay" THEN NoValue
                               ELSE get_optimal_delay(Db, username, on_platform)
              predicted == candidate /\ ~raises /\ author_stats.found /\ optimal_delay.found
              vote_decision == clf_model[ClfFeatures(author_stats)]
              accepted == predicted /\ vote_decision = 1
              link == [url |-> post.url,
                       author |-> username,
                       created |-> post.created,
                       optimal_delay |-> optimal_delay.recent_good_delay,
                       predicted_efficiency |->
                           RegPredict(author_stats, optimal_delay.recent_good_delay),
                       best_historical_efficiency |-> optimal_delay.best_efficiency]
              links == IF accepted THEN Append(post_links, link) ELSE post_links
              outcome == IF raises THEN "error"
                         ELSE IF ~fresh THEN "stale"
                         ELSE IF ~candidate THEN "published"
                         ELSE IF ~predicted THEN "no stats"
                         ELSE IF vote_decision = 1 THEN "go" ELSE "no-go"
          IN  /\ published_posts' = IF predicted
                                    THEN MarkProcessed(published_posts, post.url, vote_decision)
                                    ELSE published_posts
              /\ scan' = [outcome |-> outcome,
                           url |-> IF raises THEN <<>> ELSE post.url,
                           again |-> ~raises /\ post.url \in predicted_skip]
              /\ predicted_skip' = IF predicted /\ vote_decision = 0
                                   THEN predicted_skip \cup {post.url} ELSE predicted_skip
              /\ scheduled' = IF accepted THEN Bump(scheduled, post.url) ELSE scheduled
              /\ todo' = rest
              /\ IF rest # <<>>
                 THEN /\ post_links' = links
                      /\ UNCHANGED <<pc, posts, current_time>>
                 ELSE /\ post_links' = <<>>
                      /\ current_time' = 0
                      /\ posts' = links
                      /\ pc' = IF links = <<>> THEN AfterPlatform(on_platform) ELSE "process"
    /\ UNCHANGED <<steem_users, hive_users, on_platform, wake_at, clf_model, raised_in>>
    /\ UNCHANGED <<dbvars, ret, worldvars, executed, decision, ended>>

(***************************************************************************)
(* VoteSniper._process_platform_posts                                      *)
(***************************************************************************)
\* A mutant of ResourceOk: the threshold is not strict.
ResourceAtLeast(vp) == vp >= VP_THRESHOLD

\* if voting_power > 89
ResourceOk(vp) == vp > VP_THRESHOLD

\* A mutant of TargetVoteTime: the delay is not added.
TargetIsCreationTime(post) == post.created

\* target_vote_time = created_time + timedelta(minutes=optimal_delay), as the first
\* whole minute at which it has been reached.
TargetVoteTime(post) ==
    LET d == post.optimal_delay
    IN  post.created + (d.num + d.den - 1) \div d.den

\* get_permlink, then like_steem_post(voter=curator, voted=author, permlink, weight=100);
\* get_permlink may raise, and then like_steem_post is not called.
Vote(post, permlink_fails) ==
    executed' = IF permlink_fails THEN executed ELSE Bump(executed, post.url)

\* What one pass did: send_telegram_message is called with the "Found voteable post!"
\* message before the voting power is tested, and with the "VP too low" message when
\* the test fails (a failed notification returns False and raises nothing).
Decided(outcome, post, vp, messages) ==
    /\ decision' = [outcome |-> outcome, url |-> post.url, voting_power |-> vp,
                    messages |-> messages]
    /\ ended' = IF outcome \in {"skipped", "error"}
                THEN [ended EXCEPT ![post.url] = outcome] ELSE ended

\* `for post in posts:` goes on with the posts left; after the last one
\* _process_platform_posts returns.
NextPost(left) ==
    /\ posts' = left
    /\ pc' = IF left = <<>> THEN AfterPlatform(on_platform) ELSE "process"

\* _process_platform_posts: one pass of `for post in posts:` up to the vote, the skip
\* message or the start of time.sleep.  voting_power is read here, before any wait.
\* calculate_voting_power may raise; `except Exception` goes on with the next post.
ProcessPost ==
    /\ pc = "process"
    /\ \E vp_fails \in BOOLEAN, permlink_fails \in BOOLEAN :
          LET post == Head(posts)
              vp == voting_power[on_platform]
              target_vote_time == TargetVoteTime(post)
              minutes_until_vote == target_vote_time - now
          IN  IF vp_fails
              THEN /\ NextPost(Tail(posts))
                   /\ Decided("error", post, 0, {})
                   /\ UNCHANGED <<wake_at, executed>>
              ELSE IF ResourceOk(vp)
              THEN IF minutes_until_vote > 0
                   THEN /\ pc' = "sleep"
                        /\ wake_at' = target_vote_time
                        /\ Decided("waiting", post, vp, {"found"})
                        /\ UNCHANGED <<posts, executed>>
                   ELSE /\ Vote(post, permlink_fails)
                        /\ NextPost(Tail(posts))
                        /\ Decided(IF permlink_fails THEN "error" ELSE "voted", post, vp,
                                   {"found"})
                        /\ UNCHANGED wake_at
              ELSE /\ NextPost(Tail(posts))
                   /\ Decided("skipped", post, vp, {"found", "skip"})
                   /\ UNCHANGED <<wake_at, executed>>
    /\ UNCHANGED <<published_posts, steem_users, hive_users, on_platform, current_time,
                   todo, post_links, clf_model, raised_in>>
    /\ UNCHANGED <<dbvars, ret, worldvars, scan, predicted_skip, scheduled>>

\* time.sleep(minutes_until_vote * 60) returns when the clock has reached the target
\* time; the vote follows without another look at the voting power.
Wake ==
    /\ pc = "sleep"
    /\ \E permlink_fails \in BOOLEAN :
          /\ now' = IF now < wake_at THEN wake_at ELSE now
          /\ Vote(Head(posts), permlink_fails)
          /\ NextPost(Tail(posts))
          /\ decision' = [decision EXCEPT
                              !.outcome = IF permlink_fails THEN "error" ELSE "voted"]
          /\ ended' = IF permlink_fails THEN [ended EXCEPT ![Head(posts).url] = "error"]
                      ELSE ended
          /\ wake_at' = 0
    /\ UNCHANGED <<published_posts, steem_users, hive_users, on_platform, current_time,
                   todo, post_links, clf_model, raised_in>>
    /\ UNCHANGED <<dbvars, ret, latest_post, voting_power>>
    /\ UNCHANGED <<scan, predicted_skip, scheduled>>

(***************************************************************************)
(* The world outside: the clock, the authors, the curators' voting power.  *)
(***************************************************************************)
\* The clock moves on; a sleeping process is woken by Wake at wake_at at the latest.
Tick ==
    /\ \E t \in ClockReadings :
          /\ t > now
          /\ pc = "sleep" => t <= wake_at
          /\ now' = t
    /\ UNCHANGED <<dbvars, ret, snipervars, latest_post, voting_power, logvars>>

\* An author publishes a post, at one of the clock readings; get_author_post returns
\* it from now on.
Publish ==
    /\ now \in ClockReadings
    /\ \E a \in SniperAuthors :
          /\ ~latest_post[a].found
          /\ latest_post' = [latest_post EXCEPT
                                ![a] = [found |-> TRUE, url |-> UrlOf(a[1], a[2]), created |-> now]]
    /\ UNCHANGED <<dbvars, ret, snipervars, now, voting_power, logvars>>

\* A curator's voting power is used up by votes and regenerates with time.
VotingPowerChanges ==
    /\ \E p \in Platforms, vp \in VotingPowers :
          /\ voting_power[p] # vp
          /\ voting_power' = [voting_power EXCEPT ![p] = vp]
    /\ UNCHANGED <<dbvars, ret, snipervars, now, latest_post, logvars>>

(***************************************************************************)
(* Specifications.                                                         *)
(***************************************************************************)
\* VoteSniper.__init__ and nothing logged yet.
SniperStart ==
    /\ published_posts = {}
    /\ pc = "loop"
    /\ steem_users = <<>>
    /\ hive_users = <<>>
    /\ on_platform = "STEEM"
    /\ current_time = 0
    /\ todo = <<>>
    /\ post_links = <<>>
    /\ posts = <<>>
    /\ wake_at = 0
    /\ raised_in = "none"
    /\ now = 0
    /\ latest_post = [a \in SniperAuthors |-> NoPost]
    /\ scan = NoScan
    /\ predicted_skip = {}
    /\ scheduled = [u \in Urls |-> 0]
    /\ executed = [u \in Urls |-> 0]
    /\ decision = NoDecision
    /\ ended = [u \in Urls |-> "none"]

\* DatabaseManager() on a new database file.
Init ==
    /\ authors = <<>>
    /\ author_statistics = <<>>
    /\ aggregated_statistics = <<>>
    /\ voting_delays = <<>>
    /\ ret = Returned("init_database", "", "", NoValue)
    /\ SniperStart
    /\ clf_model = <<>>
    /\ voting_power = [p \in Platforms |-> VP_THRESHOLD]

vars == <<authors, author_statistics, aggregated_statistics, voting_delays, ret,
          snipervars, worldvars, logvars>>

OnlyStore == UNCHANGED <<snipervars, worldvars, logvars>>

RecordSnapshot ==
    /\ \E a \in StoreAuthors, s \in SnapshotInputs, fails \in BOOLEAN :
          /\ Len(author_statistics) + Len(voting_delays) < MaxWrites
          /\ UpdateAuthorStats(a[1], s[1], s[2], s[3], a[2], fails)
    /\ OnlyStore

RecordDelayObservation ==
    /\ \E a \in StoreAuthors, d \in DelayInputs, e \in EfficiencyInputs, fails \in BOOLEAN :
          /\ Len(author_statistics) + Len(voting_delays) < MaxWrites
          /\ UpdateVotingDelay(a[1], a[2], d, e, UrlOf(a[1], a[2]), fails)
    /\ OnlyStore

RecommendedDelay ==
    /\ \E a \in StoreAuthors, fails \in BOOLEAN : GetOptimalDelay(a[1], a[2], fails)
    /\ OnlyStore

Next == RecordSnapshot \/ RecordDelayObservation \/ RecommendedDelay

Spec == Init /\ [][Next]_vars

(***************************************************************************)
(* DelaySpec: one author's delay history, long enough to pass LIMIT 5.     *)
(***************************************************************************)
FirstSnapshot ==
    /\ author_statistics = <<>>
    /\ UpdateAuthorStats("alice", 10, 50, 1, "STEEM", FALSE)
    /\ OnlyStore

ObserveDelay ==
    /\ \E d \in DelayInputs, e \in ObsEfficiencyInputs :
          /\ Len(voting_delays) < MaxObs
          /\ UpdateVotingDelay("alice", "STEEM", d, e, UrlOf("alice", "STEEM"), FALSE)
    /\ OnlyStore

AskDelay ==
    /\ GetOptimalDelay("alice", "STEEM", FALSE)
    /\ OnlyStore

DelayNext == FirstSnapshot \/ ObserveDelay \/ AskDelay

DelaySpec == Init /\ [][DelayNext]_vars

(***************************************************************************)
(* CallsSpec: every operation of the store, each of which may meet a       *)
(* storage failure, on a database of a few rows.                           *)
(***************************************************************************)
SnapshotCall ==
    /\ \E a \in StoreAuthors, s \in SnapshotInputs, fails \in BOOLEAN :
          /\ Len(author_statistics) + Len(voting_delays) < MaxCallWrites
          /\ UpdateAuthorStats(a[1], s[1], s[2], s[3], a[2], fails)
    /\ OnlyStore

DelayCall ==
    /\ \E a \in StoreAuthors, d \in DelayInputs, f \in EfficiencyInputs, fails \in BOOLEAN :
          /\ Len(author_statistics) + Len(voting_delays) < MaxCallWrites
          /\ UpdateVotingDelay(a[1], a[2], d, f, UrlOf(a[1], a[2]), fails)
    /\ OnlyStore

AuthorStats ==
    /\ \E a \in StoreAuthors, fails \in BOOLEAN : GetAuthorStats(a[1], a[2], fails)
    /\ OnlyStore

AllAuthors ==
    /\ \E p \in Platforms, fails \in BOOLEAN : GetAllAuthors(p, fails)
    /\ OnlyStore

CallsNext == SnapshotCall \/ DelayCall \/ RecommendedDelay \/ AuthorStats \/ AllAuthors

CallsSpec == Init /\ [][CallsNext]_vars

(***************************************************************************)
(* SniperSpec: the sniper started on a database the training runs have     *)
(* filled before; nothing writes the database while the sniper runs.       *)
(***************************************************************************)
OldUrlOf(author_name, platform) == <<"old url", author_name, platform>>

\* Three tracked authors.  alice on STEEM has one observation at 60 minutes, bob on
\* STEEM one at 0 minutes, alice on HIVE none (optimal_delay is the default).
TrainedDb ==
    LET d1 == update_author_stats(EmptyDb, "alice", 20, 70, 4, "STEEM")
        d2 == update_author_stats(d1, "bob", 10, 50, 1, "STEEM")
        d3 == update_author_stats(d2, "alice", 10, 50, 1, "HIVE")
        d4 == update_voting_delay(d3, "alice", "STEEM", 60, 5, OldUrlOf("alice", "STEEM"))
    IN  update_voting_delay(d4, "bob", "STEEM", 0, 5, OldUrlOf("bob", "STEEM"))

\* The feature vectors the classifier can be asked about: those of the tracked authors.
FeaturesIn(db) ==
    {ClfFeatures(get_author_stats(db, a[1], a[2])) :
        a \in {b \in SniperAuthors : get_author_stats(db, b[1], b[2]).found}}

\* clf_model.load_model('models/classifier_model.json'): the classifier is a fixed
\* function of the features, whichever the model file holds.
SniperInit ==
    /\ \E db \in {EmptyDb, TrainedDb} :
          /\ authors = db.authors
          /\ author_statistics = db.author_statistics
          /\ aggregated_statistics = db.aggregated_statistics
          /\ voting_delays = db.voting_delays
    /\ ret = Returned("init_database", "", "", NoValue)
    /\ SniperStart
    /\ clf_model \in [FeaturesIn(Db) -> {0, 1}]
    /\ voting_power \in [Platforms -> VotingPowers]

SniperNext ==
    \/ LoopStart
    \/ HiveStart
    \/ ScanAuthor
    \/ ProcessPost
    \/ Wake
    \/ Tick
    \/ Publish
    \/ VotingPowerChanges

SniperSpec == SniperInit /\ [][SniperNext]_vars

(***************************************************************************)
(* Claims about the statistics store.                                      *)
(***************************************************************************)
HistoryOf(author_id) == SelectSeq(author_statistics, LAMBDA r : r.author_id = author_id)

ObservationsOf(author_id) == SelectSeq(voting_delays, LAMBDA vd : vd.author_id = author_id)

\* r is the exact mean of the integers in column: r * Len(column) = sum of column.
IsMeanOf(r, column) ==
    /\ r.den > 0
    /\ r.num * Len(column) = r.den * SeqSum(column)

LastCallWas(op) == ret.op = op /\ ~ret.raised

\* C1: every author with N >= 1 recorded snapshots has an aggregated row whose
\* total_trainings is N and whose three all-time values are the unweighted means of
\* the efficiencies, reputations and payouts of all N snapshots, whatever snapshot and
\* delay-observation writes came before.
C1_AggregateIsMeanOfHistory ==
    \A author_id \in 1..Len(authors) :
        LET rows == HistoryOf(author_id)
        IN  Len(rows) >= 1 =>
              /\ author_id \in DOMAIN aggregated_statistics
              /\ LET ag == aggregated_statistics[author_id]
                 IN  /\ ag.total_trainings = Len(rows)
                     /\ IsMeanOf(ag.avg_efficiency_all_time,
                                 [i \in 1..Len(rows) |-> rows[i].avg_efficiency])
                     /\ IsMeanOf(ag.reputation_all_time,
                                 [i \in 1..Len(rows) |-> rows[i].reputation])
                     /\ IsMeanOf(ag.avg_payout_all_time,
                                 [i \in 1..Len(rows) |-> rows[i].avg_payout])

\* A successful update_author_stats has just returned for an author that now has two
\* snapshots of different efficiency, while another author has a snapshot too and a
\* delay observation has been written.
C1_Witness ==
    /\ LastCallWas("update_author_stats")
    /\ voting_delays # <<>>
    /\ \E author_id \in 1..Len(authors), other \in 1..Len(authors) :
          /\ authors[author_id] = ret.author
          /\ other # author_id
          /\ HistoryOf(other) # <<>>
          /\ \E i, j \in 1..Len(HistoryOf(author_id)) :
                HistoryOf(author_id)[i].avg_efficiency # HistoryOf(author_id)[j].avg_efficiency

\* C2: a call of update_voting_delay for an author with an aggregated row changes
\* (optimal_delay, best_efficiency) exactly when the new efficiency is strictly
\* greater than the stored best_efficiency; it then stores the new delay and the new
\* efficiency, and an efficiency equal to the stored best leaves optimal_delay alone.
C2_StrictlyGreaterUpdatesBest ==
    [][( /\ ret'.op = "update_voting_delay"
         /\ ~ret'.raised
         /\ Len(voting_delays') = Len(voting_delays) + 1 )
       => LET row == voting_delays'[Len(voting_delays')]
              old == aggregated_statistics[row.author_id]
              new == aggregated_statistics'[row.author_id]
              changed == \/ new.optimal_delay # old.optimal_delay
                         \/ new.best_efficiency # old.best_efficiency
          IN  /\ authors[row.author_id] = ret'.author
              /\ changed <=> row.efficiency > old.best_efficiency
              /\ row.efficiency > old.best_efficiency =>
                     /\ new.optimal_delay = row.vote_delay
                     /\ new.best_efficiency = row.efficiency
              /\ row.efficiency = old.best_efficiency =>
                     new.optimal_delay = old.optimal_delay
       ]_vars

\* Two observations of one author carry the stored best efficiency with different
\* delays, and the stored optimal_delay is still the delay of the earlier one.
C2_Witness ==
    /\ LastCallWas("update_voting_delay")
    /\ \E author_id \in DOMAIN aggregated_statistics :
          LET obs == ObservationsOf(author_id)
              ag == aggregated_statistics[author_id]
          IN  /\ ag.best_efficiency > DEFAULT_BEST_EFFICIENCY
              /\ \E i, j \in 1..Len(obs) :
                    /\ i < j
                    /\ obs[i].efficiency = ag.best_efficiency
                    /\ obs[j].efficiency = ag.best_efficiency
                    /\ obs[i].vote_delay # obs[j].vote_delay
                    /\ ag.optimal_delay = obs[i].vote_delay

\* The (at most) five most recent observations of the author that qualify.
FiveMostRecentGoodDelays(author_id) ==
    LET best == aggregated_statistics[author_id].best_efficiency
        good == SelectSeq(voting_delays,
                          LAMBDA vd : /\ vd.author_id = author_id
                                      /\ 10 * vd.efficiency >= GOOD_TENTHS * best)
    IN  Limit(OrderByVotedAtDesc(good), RECENT_LIMIT)

\* C3: the recent_good_delay that get_optimal_delay returns is the mean delay of the
\* five most recent qualifying observations only (with the documented fallback to
\* optimal_delay); older qualifying observations do not contribute.
C3_MeanOfFiveMostRecent ==
    (LastCallWas("get_optimal_delay") /\ ret.value.found) =>
        LET author_id == AuthorId(authors, ret.author[1], ret.author[2])
            five == FiveMostRecentGoodDelays(author_id)
            mean == AVG([i \in 1..Len(five) |-> five[i].vote_delay])
        IN  ret.value.recent_good_delay =
                IF IsNull(mean) \/ mean.num = 0
                THEN Real(aggregated_statistics[author_id].optimal_delay, 1)
                ELSE mean

HasNoAggregate(author) ==
    LET author_id == AuthorId(authors, author[1], author[2])
    IN  author_id = 0 \/ author_id \notin DOMAIN aggregated_statistics

C9_BestEfficiencyNeverDecreases ==
    [][\A author_id \in DOMAIN aggregated_statistics :
          /\ author_id \in DOMAIN aggregated_statistics'
          /\ aggregated_statistics'[author_id].best_efficiency
                >= aggregated_statistics[author_id].best_efficiency
       ]_vars

\* An author's best efficiency was raised above the default, a later observation
\* of lower efficiency was recorded, and a snapshot was written after that.
C9_Witness ==
    /\ LastCallWas("update_author_stats")
    /\ \E author_id \in DOMAIN aggregated_statistics :
          LET obs == ObservationsOf(author_id)
              ag == aggregated_statistics[author_id]
          IN  /\ authors[author_id] = ret.author
              /\ ag.total_trainings >= 2
              /\ ag.best_efficiency > DEFAULT_BEST_EFFICIENCY
              /\ \E i, j \in 1..Len(obs) :
                    /\ i < j
                    /\ obs[i].efficiency = ag.best_efficiency
                    /\ obs[j].efficiency < ag.best_efficiency

NoObservationQualifies(author_id) ==
    \A i \in 1..Len(voting_delays) :
        voting_delays[i].author_id = author_id =>
            10 * voting_delays[i].efficiency
                < GOOD_TENTHS * aggregated_statistics[author_id].best_efficiency

\* C10: when no recorded observation of the author has efficiency >= 0.8 * best_efficiency,
\* get_optimal_delay returns recent_good_delay equal to optimal_delay.
C10_FallbackToOptimalDelay ==
    (LastCallWas("get_optimal_delay") /\ ret.value.found) =>
        LET author_id == AuthorId(authors, ret.author[1], ret.author[2])
        IN  NoObservationQualifies(author_id) =>
                /\ ret.value.recent_good_delay.den = 1
                /\ ret.value.recent_good_delay.num
                       = aggregated_statistics[author_id].optimal_delay

\* get_optimal_delay has answered for an author that has observations, none of
\* which qualifies.
C10_Witness ==
    /\ LastCallWas("get_optimal_delay")
    /\ ret.value.found
    /\ LET author_id == AuthorId(authors, ret.author[1], ret.author[2])
       IN  /\ ObservationsOf(author_id) # <<>>
           /\ NoObservationQualifies(author_id)

(***************************************************************************)
(* Claims about the sniper (SniperSpec).                                   *)
(***************************************************************************)
\* A step that is one pass of get_posts' loop.
ScanStep == pc = "get_posts" /\ todo' # todo

\* C4: within one run, like_steem_post is called at most once for a URL, whatever the
\* number of cycles: a URL is returned by get_posts at most once, it joins
\* published_posts in the very step that returns it, a URL in published_posts is
\* never returned again, and only returned URLs are voted on.
C4_AtMostOneVotePerUrl ==
    [][\A u \in Urls :
          /\ executed'[u] <= 1
          /\ scheduled'[u] <= 1
          /\ executed'[u] <= scheduled'[u]
          /\ scheduled'[u] > scheduled[u] => u \notin published_posts /\ u \in published_posts'
          /\ u \in published_posts => scheduled'[u] = scheduled[u]]_vars

\* A URL that has been voted on is found fresh again in a later cycle and passed over
\* because it is in published_posts.
C4_Witness ==
    /\ scan.outcome = "published"
    /\ executed[scan.url] = 1
    /\ scheduled[scan.url] = 1

C6_WaitDoesNotBlockDriver ==
    (pc = "sleep" /\ now < wake_at) =>
        ENABLED (LoopStart \/ HiveStart \/ ScanAuthor \/ ProcessPost)

\* C7 as stated: a vote is cast only when the voting power at the time of the vote is
\* above the threshold.
C7_VotingPowerCheckedAtVoteTime ==
    [][\A u \in Urls :
          executed'[u] > executed[u] => ResourceOk(voting_power[on_platform])]_vars

(***************************************************************************)
(* Claims about the store (Spec), continued.                               *)
(***************************************************************************)
\* C11: each store write is atomic.  A call that raises leaves the four tables as
\* they were committed before it; a committed snapshot comes with its author's
\* aggregated row counting one more training; a committed delay observation comes with
\* a best_efficiency that is at least the observation's; and the aggregated table
\* never changes without a snapshot or an observation being committed in the same step.
C11_WritesAreAtomic ==
    [][/\ ret'.raised => UNCHANGED dbvars
       /\ Len(author_statistics') > Len(author_statistics) =>
             LET id == author_statistics'[Len(author_statistics')].author_id
                 before == IF id \in DOMAIN aggregated_statistics
                           THEN aggregated_statistics[id].total_trainings ELSE 0
             IN  /\ id \in DOMAIN aggregated_statistics'
                 /\ aggregated_statistics'[id].total_trainings = before + 1
       /\ Len(voting_delays') > Len(voting_delays) =>
             LET vd == voting_delays'[Len(voting_delays')]
             IN  /\ vd.author_id \in DOMAIN aggregated_statistics'
                 /\ aggregated_statistics'[vd.author_id].best_efficiency >= vd.efficiency
       /\ aggregated_statistics' # aggregated_statistics =>
             \/ Len(author_statistics') > Len(author_statistics)
             \/ Len(voting_delays') > Len(voting_delays)]_vars

\* A write has failed on a database that already holds snapshots and observations.
C11_Witness ==
    /\ ret.raised
    /\ ret.op \in {"update_author_stats", "update_voting_delay"}
    /\ author_statistics # <<>>
    /\ voting_delays # <<>>

\* C12 as stated: whichever store operation meets a storage failure, its caller gets
\* an error; get_optimal_delay and get_all_authors included.
C12_StorageFailurePropagates ==
    [][\A a \in StoreAuthors :
          (\/ GetOptimalDelay(a[1], a[2], TRUE)
           \/ GetAuthorStats(a[1], a[2], TRUE)
           \/ GetAllAuthors(a[2], TRUE)
           \/ \E s \in SnapshotInputs : UpdateAuthorStats(a[1], s[1], s[2], s[3], a[2], TRUE)
           \/ \E d \in DelayInputs, f \in EfficiencyInputs :
                 UpdateVotingDelay(a[1], a[2], d, f, UrlOf(a[1], a[2]), TRUE))
          => ret'.raised]_vars

(***************************************************************************)
(* Claims about the sniper (SniperSpec), continued.                        *)
(***************************************************************************)
\* C13: like_steem_post is never called for a post before its creation time plus the
\* author's recent_good_delay, and the sniper goes to sleep for a post only when that
\* time lies ahead: a post whose target time has been reached is voted on in the
\* same pass.
C13_NoVoteBeforeTargetTime ==
    [][/\ \A a \in SniperAuthors :
             executed'[UrlOf(a[1], a[2])] > executed[UrlOf(a[1], a[2])] =>
                LET d == get_optimal_delay(Db, a[1], a[2]).recent_good_delay
                IN  now' * d.den >= latest_post[a].created * d.den + d.num
       /\ (pc = "process" /\ pc' = "sleep") =>
             LET post == Head(posts)
                 d == get_optimal_delay(Db, post.author, on_platform).recent_good_delay
             IN  now * d.den < post.created * d.den + d.num]_vars

\* One post has been voted on after a wait of 60 minutes, and another, whose target
\* time had passed by then, right after it.
C13_Witness ==
    /\ executed[UrlOf("alice", "STEEM")] = 1
    /\ executed[UrlOf("bob", "STEEM")] = 1
    /\ now >= 60
    /\ now <= 60 + latest_post[<<"bob", "STEEM">>].created + MAX_AGE_MINUTES

\* A step that is one pass of _process_platform_posts' loop, up to the vote, the skip
\* or the start of the wait.
ProcessStep == pc = "process" /\ (posts' # posts \/ pc' = "sleep")

\* C14: the threshold is strict.  A pass votes, or starts waiting to vote, only when
\* the voting power it read is above 89; at 89 or below it neither votes nor waits,
\* and - unless reading the voting power itself failed - its outcome is the skip, with
\* the skip message sent and no error.
C14_StrictThreshold ==
    [][ProcessStep =>
          /\ (executed' # executed \/ pc' = "sleep") =>
                voting_power[on_platform] > VP_THRESHOLD
          /\ voting_power[on_platform] <= VP_THRESHOLD =>
                /\ executed' = executed
                /\ pc' # "sleep"
                /\ decision'.outcome \in {"skipped", "error"}
                /\ decision'.outcome = "skipped" =>
                      /\ decision'.voting_power = voting_power[on_platform]
                      /\ "skip" \in decision'.messages
          /\ decision'.outcome = "skipped" => voting_power[on_platform] <= VP_THRESHOLD]_vars

\* A post has been skipped at a voting power of exactly 89.
C14_Witness ==
    /\ decision.outcome = "skipped"
    /\ decision.voting_power = VP_THRESHOLD
    /\ "skip" \in decision.messages
    /\ executed[decision.url] = 0

\* C15: a pass of get_posts hands a post to the classifier, and returns it, only if
\* the post's age at the scan's clock reading is at most 5 minutes and its URL is not
\* in published_posts; a post of that age whose URL is not in the set is not turned
\* away, and an older post leaves no trace: it is not classified, not returned, not
\* added to published_posts, and nothing is voted on.
C15_OnlyFreshUnprocessedPass ==
    [][(ScanStep /\ latest_post[<<Head(todo), on_platform>>].found) =>
          LET post == latest_post[<<Head(todo), on_platform>>]
              age_minutes == current_time - post.created
              passed == \/ scan'.outcome \in {"go", "no-go"}
                        \/ scheduled' # scheduled
                        \/ published_posts' # published_posts
                        \/ predicted_skip' # predicted_skip
          IN  /\ passed => age_minutes <= MAX_AGE_MINUTES /\ post.url \notin published_posts
              /\ (age_minutes <= MAX_AGE_MINUTES /\ post.url \notin published_posts) =>
                    scan'.outcome \in {"go", "no-go", "no stats", "error"}
              /\ age_minutes > MAX_AGE_MINUTES =>
                    /\ scan'.outcome \in {"stale", "error"}
                    /\ executed' = executed]_vars

\* A post of age 6 minutes has just been turned away, and has never been returned.
C15_Witness ==
    /\ pc = "get_posts"
    /\ scan.outcome = "stale"
    /\ current_time - latest_post[<<scan.url[2], scan.url[3]>>].created = MAX_AGE_MINUTES + 1
    /\ scheduled[scan.url] = 0
    /\ scan.url \notin published_posts

\* C16: an exception in one author's pass of get_posts costs that author's pass only:
\* the loop goes on with the next author of the batch, and the posts accepted so far
\* stay in post_links - after the last author they are what get_posts returns.
C16_ErrorSkipsOneAuthorOnly ==
    [][(ScanStep /\ scan'.outcome = "error") =>
          /\ todo' = Tail(todo)
          /\ Tail(todo) # <<>> => pc' = "get_posts" /\ post_links' = post_links
          /\ Tail(todo) = <<>> => posts' = post_links
          /\ UNCHANGED <<published_posts, scheduled, predicted_skip, executed>>]_vars

\* alice's post was accepted, bob's pass raised, and get_posts returned alice's post.
C16_Witness ==
    /\ pc = "process"
    /\ on_platform = "STEEM"
    /\ scan.outcome = "error"
    /\ Len(posts) = 1
    /\ posts[1].author = "alice"

\* C17: process_votes contains failures.  After an exception raised in the STEEM
\* block it stands before the HIVE block of the same iteration; after one raised in
\* the HIVE block or elsewhere in the loop body it stands at the start of the next
\* iteration; the votes cast and the URLs remembered so far are kept.
C17_FailuresAreContained ==
    [][(raised_in' # "none" /\ pc \in {"loop", "hive"}) =>
          /\ (raised_in' = "platform" /\ on_platform' = "STEEM") => pc' = "hive"
          /\ (raised_in' = "platform" /\ on_platform' = "HIVE") => pc' = "loop"
          /\ raised_in' = "main loop" => pc' = "loop"
          /\ UNCHANGED <<published_posts, executed, scheduled>>]_vars

\* The STEEM block has raised after an earlier iteration had voted, and process_votes
\* stands before the HIVE block with an author to scan.
C17_Witness ==
    /\ raised_in = "platform"
    /\ on_platform = "STEEM"
    /\ pc = "hive"
    /\ hive_users # <<>>
    /\ \E u \in Urls : executed[u] = 1

\* C18 as stated: every call of like_steem_post is followed up, in the same pass, by an
\* update_voting_delay for the post's author and URL, carrying the planned delay.
C18_VoteIsFedBackToStore ==
    [][\A a \in SniperAuthors :
          executed'[UrlOf(a[1], a[2])] > executed[UrlOf(a[1], a[2])] =>
             /\ Len(voting_delays') = Len(voting_delays) + 1
             /\ LET vd == voting_delays'[Len(voting_delays')]
                IN  /\ vd.author_id = AuthorId(authors, a[1], a[2])
                    /\ vd.post_url = UrlOf(a[1], a[2])]_vars

(***************************************************************************)
(* Claims about the store (Spec), continued.                               *)
(***************************************************************************)
\* C19: update_author_stats leaves optimal_delay and best_efficiency of every existing
\* aggregated row as they are; only a row it creates takes the defaults.
C19_SnapshotKeepsDelayFields ==
    [][Len(author_statistics') > Len(author_statistics) =>
          \A author_id \in DOMAIN aggregated_statistics :
             /\ author_id \in DOMAIN aggregated_statistics'
             /\ aggregated_statistics'[author_id].optimal_delay
                   = aggregated_statistics[author_id].optimal_delay
             /\ aggregated_statistics'[author_id].best_efficiency
                   = aggregated_statistics[author_id].best_efficiency]_vars

\* A second snapshot has just been written for an author whose optimal_delay and
\* best_efficiency had been moved off their defaults.
C19_Witness ==
    /\ LastCallWas("update_author_stats")
    /\ LET author_id == AuthorId(authors, ret.author[1], ret.author[2])
       IN  /\ aggregated_statistics[author_id].total_trainings = 2
           /\ aggregated_statistics[author_id].optimal_delay = 60
           /\ aggregated_statistics[author_id].best_efficiency = 5

\* C20 as stated: whenever at least one observation of the author qualifies,
\* get_optimal_delay returns the mean of the qualifying delays as recent_good_delay,
\* a mean of 0 included.
C20_FallbackOnlyWhenNoneQualifies ==
    (LastCallWas("get_optimal_delay") /\ ret.value.found) =>
        LET author_id == AuthorId(authors, ret.author[1], ret.author[2])
            kept == SelectSeq(voting_delays,
                       LAMBDA vd : /\ vd.author_id = author_id
                                   /\ 10 * vd.efficiency >=
                                         GOOD_TENTHS * aggregated_statistics[author_id].best_efficiency)
        IN  kept # <<>> =>
               ret.value.recent_good_delay = AVG([i \in 1..Len(kept) |-> kept[i].vote_delay])

\* The greatest of a non-empty set of integers.
MaxOf(S) == CHOOSE x \in S : \A y \in S : y <= x

\* C21: whatever update_author_stats and update_voting_delay calls came before, every
\* aggregated row's best_efficiency is the greatest of the default 0 and the
\* efficiencies of all delay observations recorded for its author; its optimal_delay
\* is the default 1440 when no observation of the author exceeded 0, and otherwise
\* the delay of the earliest recorded observation that carries best_efficiency.
C21_BestIsMaxOverObservations ==
    \A author_id \in DOMAIN aggregated_statistics :
        LET obs == ObservationsOf(author_id)
            ag == aggregated_statistics[author_id]
            best == MaxOf({DEFAULT_BEST_EFFICIENCY} \cup {obs[i].efficiency : i \in 1..Len(obs)})
            exceeded == {i \in 1..Len(obs) : obs[i].efficiency > DEFAULT_BEST_EFFICIENCY}
            carriers == {i \in 1..Len(obs) : obs[i].efficiency = best}
        IN  /\ ag.best_efficiency = best
            /\ exceeded = {} => ag.optimal_delay = DEFAULT_OPTIMAL_DELAY
            /\ exceeded # {} =>
                   ag.optimal_delay = obs[CHOOSE i \in carriers : \A j \in carriers : i <= j].vote_delay

\* An author has three observations: a lower positive efficiency first, then the best
\* one twice with different delays; the stored delay is that of the second
\* observation, neither the first nor the last written.
C21_Witness ==
    /\ LastCallWas("update_voting_delay")
    /\ \E author_id \in DOMAIN aggregated_statistics :
          LET obs == ObservationsOf(author_id)
              ag == aggregated_statistics[author_id]
          IN  /\ Len(obs) = 3
              /\ obs[1].efficiency > DEFAULT_BEST_EFFICIENCY
              /\ obs[1].efficiency < obs[2].efficiency
              /\ obs[3].efficiency = obs[2].efficiency
              /\ obs[1].vote_delay # obs[2].vote_delay
              /\ obs[3].vote_delay # obs[2].vote_delay
              /\ ag.optimal_delay = obs[2].vote_delay

(***************************************************************************)
(* Claims about the sniper (SniperSpec), continued.                        *)
(***************************************************************************)
\* C22: an accepted post gets one attempt.  From the moment its pass of
\* _process_platform_posts has ended in the low-voting-power skip or in an error
\* before like_steem_post, its URL stays in published_posts, and no later step finds
\* it anew (a pass of get_posts that meets it turns it away as stale or as already
\* published), returns it from get_posts, queues it for processing or votes on it,
\* whatever the voting power has become.
C22_OneAttemptOnly ==
    [][\A u \in Urls :
          ended[u] # "none" =>
             /\ u \in published_posts
             /\ u \in published_posts'
             /\ executed[u] = 0
             /\ executed'[u] = 0
             /\ scheduled'[u] = scheduled[u]
             /\ \A i \in 1..Len(posts') : posts'[i].url # u
             /\ \A i \in 1..Len(post_links') : post_links'[i].url # u
             /\ (ScanStep /\ scan'.url = u) => scan'.outcome \in {"stale", "published"}
             /\ ended'[u] = ended[u]]_vars

\* A post was skipped for low voting power; a later cycle has met it again, still
\* fresh, with the voting power now above the threshold, and has passed it over as
\* already published: it has not been voted on.
C22_Witness ==
    /\ scan.outcome = "published"
    /\ ended[scan.url] = "skipped"
    /\ ResourceOk(voting_power[on_platform])
    /\ executed[scan.url] = 0
    /\ scheduled[scan.url] = 1

====
